---------------------------- MODULE Spec2Model ----------------------------
(***************************************************************************)
(* A model of globber: Pattern::new compiles extended glob text into a     *)
(* token sequence (src/src/syntax.rs) and Pattern::matches evaluates the   *)
(* tokens against an input with a tri-state backtracking matcher           *)
(* (src/src/matcher.rs).  A char is a one-character string; a text is a    *)
(* sequence of chars.  Offsets and indices are 0-based as in the source;   *)
(* At(s, i) reads the 0-based element i of a sequence.                     *)
(***************************************************************************)
EXTENDS Naturals, Sequences, FiniteSets

VARIABLES pc, text, parts, compiled, subject, verdict

vars == <<pc, text, parts, compiled, subject, verdict>>

----------------------------------------------------------------------------
(* Sequences, 0-based as Rust slices.                                      *)

At(s, i) == s[i + 1]

\* s[from..to]
Slice(s, from, to) == SubSeq(s, from + 1, to)

\* s[from..]
SliceFrom(s, from) == SubSeq(s, from + 1, Len(s))

\* The Unicode scalar value of a char: char comparison in Rust is by code
\* point.
CodePoint(c) ==
    CASE c = "!" -> 33
      [] c = "(" -> 40
      [] c = ")" -> 41
      [] c = "*" -> 42
      [] c = "+" -> 43
      [] c = "-" -> 45
      [] c = "." -> 46
      [] c = "/" -> 47
      [] c = "?" -> 63
      [] c = "@" -> 64
      [] c = "[" -> 91
      [] c = "\\" -> 92
      [] c = "]" -> 93
      [] c = "a" -> 97
      [] c = "b" -> 98
      [] c = "c" -> 99
      [] c = "|" -> 124

\* std::path::is_separator on a Unix target.
is_separator(c) == c = "/"

----------------------------------------------------------------------------
(* syntax.rs: Token, CharSpecifier, Error.                                 *)

AnyChar == [kind |-> "AnyChar"]
AnySequence == [kind |-> "AnySequence"]
AnyRecursive == [kind |-> "AnyRecursive"]
AnyOf(specifiers) == [kind |-> "AnyOf", specifiers |-> specifiers]
NotAnyOf(specifiers) == [kind |-> "NotAnyOf", specifiers |-> specifiers]
Char(c) == [kind |-> "Char", c |-> c]
ZeroOrOne(patterns) == [kind |-> "ZeroOrOne", patterns |-> patterns]
ZeroOrMore(patterns) == [kind |-> "ZeroOrMore", patterns |-> patterns]
OneOrMore(patterns) == [kind |-> "OneOrMore", patterns |-> patterns]
ExactlyOne(patterns) == [kind |-> "ExactlyOne", patterns |-> patterns]
NoneOf(patterns) == [kind |-> "NoneOf", patterns |-> patterns]

SpecChar(c) == [kind |-> "Char", c |-> c]
SpecRange(start, end) == [kind |-> "Range", start |-> start, end |-> end]

\* Result<_, Error>: Ok carries the value, Err the error kind and its offset.
Ok(v) == [ok |-> TRUE, v |-> v]
Err(kind, offset) == [ok |-> FALSE, err |-> kind, offset |-> offset]

----------------------------------------------------------------------------
(* matcher.rs                                                              *)

\* match_specifiers with the range's upper bound left out (c < *end).
RECURSIVE match_specifiers_exclusive(_, _)
match_specifiers_exclusive(specifiers, c) ==
    IF specifiers = <<>> THEN "Retryable"
    ELSE LET specifier == Head(specifiers) IN
         IF specifier.kind = "Char"
         THEN IF c = specifier.c THEN "Match"
              ELSE match_specifiers_exclusive(Tail(specifiers), c)
         ELSE IF CodePoint(c) >= CodePoint(specifier.start)
                 /\ CodePoint(c) < CodePoint(specifier.end)
              THEN "Match"
              ELSE match_specifiers_exclusive(Tail(specifiers), c)

RECURSIVE match_specifiers(_, _)
match_specifiers(specifiers, c) ==
    IF specifiers = <<>> THEN "Retryable"
    ELSE LET specifier == Head(specifiers) IN
         IF specifier.kind = "Char"
         THEN IF c = specifier.c THEN "Match"
              ELSE match_specifiers(Tail(specifiers), c)
         ELSE IF CodePoint(c) >= CodePoint(specifier.start)
                 /\ CodePoint(c) <= CodePoint(specifier.end)
              THEN "Match"
              ELSE match_specifiers(Tail(specifiers), c)

\* `input` is the unread rest of the Chars iterator.  One call of
\* match_index(tokens, i, input) runs the for loop from token i; going on to
\* the next iteration with the input as the iteration left it is
\* match_index(tokens, i + 1, rest).
RECURSIVE match_index(_, _, _)
RECURSIVE consume_search(_, _, _)
RECURSIVE count_matches(_, _, _, _, _)
RECURSIVE any_matches(_, _, _, _)

\* consume_search that never advances the input.
consume_search_stuck(tokens, next, input) == match_index(tokens, next, input)

\* while let Some(_) = input.next() { match match_index(tokens, next, input.clone())
\*   { Retryable => {}, m => return m } }, then on to token `next` with the
\* input exhausted.
consume_search(tokens, next, input) ==
    IF input = <<>> THEN match_index(tokens, next, input)
    ELSE LET m == match_index(tokens, next, Tail(input)) IN
         IF m = "Retryable" THEN consume_search(tokens, next, Tail(input))
         ELSE m

\* The counting loop of ZeroOrOne and ExactlyOne over patterns[k..], with
\* `matches` counted so far: the count on leaving the loop, cut short at 2
\* (the loop returns Retryable as soon as matches > 1).
count_matches(patterns, k, rest, input, matches) ==
    IF matches > 1 \/ k > Len(patterns) THEN matches
    ELSE count_matches(patterns, k + 1, rest, input,
            IF match_index(patterns[k] \o rest, 0, input) = "Match"
            THEN matches + 1 ELSE matches)

\* The loop of ZeroOrMore, OneOrMore and NoneOf over patterns[k..]: whether
\* some alternative extended by the rest of the tokens returns Match.
any_matches(patterns, k, rest, input) ==
    IF k > Len(patterns) THEN FALSE
    ELSE IF match_index(patterns[k] \o rest, 0, input) = "Match" THEN TRUE
    ELSE any_matches(patterns, k + 1, rest, input)

match_wildcard(tokens, i, input) ==
    LET token == At(tokens, i)
        result0 == match_index(tokens, i + 1, input)
        skip == token.kind = "AnyRecursive"
                /\ i + 1 < Len(tokens)
                /\ At(tokens, i + 1).kind = "Char"
                /\ is_separator(At(tokens, i + 1).c)
        skipped == match_index(tokens, i + 2, input)
    IN  IF result0 # "Retryable" THEN result0
        ELSE IF skip /\ skipped # "Retryable" THEN skipped
        ELSE consume_search(tokens, i + 1, input)

match_char(tokens, i, input) ==
    IF input = <<>> THEN "NoMatch"
    ELSE IF At(tokens, i).c # Head(input) THEN "Retryable"
    ELSE match_index(tokens, i + 1, Tail(input))

match_any_char(tokens, i, input) == "Match"

match_any_of(tokens, i, input) ==
    IF input = <<>> THEN "NoMatch"
    ELSE IF match_specifiers(At(tokens, i).specifiers, Head(input)) = "Match"
         THEN match_index(tokens, i + 1, Tail(input))
         ELSE "Retryable"

match_not_any_of(tokens, i, input) ==
    IF input = <<>> THEN "NoMatch"
    ELSE IF match_specifiers(At(tokens, i).specifiers, Head(input)) = "Retryable"
         THEN match_index(tokens, i + 1, Tail(input))
         ELSE "Retryable"

\* match_zero_or_one without the ambiguity test (matches >= 1 is a Match).
match_zero_or_one_first(tokens, i, input) ==
    IF any_matches(At(tokens, i).patterns, 1, SliceFrom(tokens, i + 1), input)
    THEN "Match"
    ELSE match_index(tokens, i + 1, input)

match_zero_or_one(tokens, i, input) ==
    LET matches == count_matches(At(tokens, i).patterns, 1,
                                 SliceFrom(tokens, i + 1), input, 0)
    IN  IF matches > 1 THEN "Retryable"
        ELSE IF matches = 1 THEN "Match"
        ELSE match_index(tokens, i + 1, input)

\* match_zero_or_more without the fall back to the rest of the tokens.
match_zero_or_more_strict(tokens, i, input) ==
    IF any_matches(At(tokens, i).patterns, 1, SliceFrom(tokens, i + 1), input)
    THEN "Match"
    ELSE "Retryable"

match_zero_or_more(tokens, i, input) ==
    IF any_matches(At(tokens, i).patterns, 1, SliceFrom(tokens, i + 1), input)
    THEN "Match"
    ELSE match_index(tokens, i + 1, input)

\* match_one_or_more with a fall back to the rest of the tokens.
match_one_or_more_lax(tokens, i, input) ==
    IF any_matches(At(tokens, i).patterns, 1, SliceFrom(tokens, i + 1), input)
    THEN "Match"
    ELSE match_index(tokens, i + 1, input)

match_one_or_more(tokens, i, input) ==
    IF any_matches(At(tokens, i).patterns, 1, SliceFrom(tokens, i + 1), input)
    THEN "Match"
    ELSE "Retryable"

\* match_exactly_one without the ambiguity test (matches >= 1 is a Match).
match_exactly_one_first(tokens, i, input) ==
    IF any_matches(At(tokens, i).patterns, 1, SliceFrom(tokens, i + 1), input)
    THEN "Match"
    ELSE "Retryable"

match_exactly_one(tokens, i, input) ==
    LET matches == count_matches(At(tokens, i).patterns, 1,
                                 SliceFrom(tokens, i + 1), input, 0)
    IN  IF matches > 1 THEN "Retryable"
        ELSE IF matches = 1 THEN "Match"
        ELSE "Retryable"

\* match_none_of that asks for at least one char of input.
match_none_of_nonempty(tokens, i, input) ==
    IF any_matches(At(tokens, i).patterns, 1, SliceFrom(tokens, i + 1), input)
       \/ input = <<>>
    THEN "Retryable"
    ELSE consume_search(tokens, i + 1, input)

\* match_none_of that stands for one char at most.
match_none_of_single(tokens, i, input) ==
    IF any_matches(At(tokens, i).patterns, 1, SliceFrom(tokens, i + 1), input)
    THEN "Retryable"
    ELSE IF input = <<>> THEN match_index(tokens, i + 1, input)
    ELSE match_index(tokens, i + 1, Tail(input))

\* match_none_of that tries the rest of the tokens on the whole input first,
\* as the wildcards do.
match_none_of_greedy(tokens, i, input) ==
    IF any_matches(At(tokens, i).patterns, 1, SliceFrom(tokens, i + 1), input)
    THEN "Retryable"
    ELSE IF match_index(tokens, i + 1, input) # "Retryable"
    THEN match_index(tokens, i + 1, input)
    ELSE consume_search(tokens, i + 1, input)

match_none_of(tokens, i, input) ==
    IF any_matches(At(tokens, i).patterns, 1, SliceFrom(tokens, i + 1), input)
    THEN "Retryable"
    ELSE consume_search(tokens, i + 1, input)

\* match_end that lets input be left over.
match_end_unanchored(input) == "Match"

\* The end-of-pattern rule, after the for loop.
match_end(input) == IF input # <<>> THEN "Retryable" ELSE "Match"

match_index(tokens, i, input) ==
    IF i >= Len(tokens) THEN match_end(input)
    ELSE LET kind == At(tokens, i).kind IN
         CASE kind \in {"AnyRecursive", "AnySequence"} -> match_wildcard(tokens, i, input)
           [] kind = "Char" -> match_char(tokens, i, input)
           [] kind = "AnyChar" -> match_any_char(tokens, i, input)
           [] kind = "AnyOf" -> match_any_of(tokens, i, input)
           [] kind = "NotAnyOf" -> match_not_any_of(tokens, i, input)
           [] kind = "ZeroOrOne" -> match_zero_or_one(tokens, i, input)
           [] kind = "ZeroOrMore" -> match_zero_or_more(tokens, i, input)
           [] kind = "OneOrMore" -> match_one_or_more(tokens, i, input)
           [] kind = "ExactlyOne" -> match_exactly_one(tokens, i, input)
           [] kind = "NoneOf" -> match_none_of(tokens, i, input)

\* Matcher::matches
Matcher_matches(tokens, s) == match_index(tokens, 0, s) = "Match"

----------------------------------------------------------------------------
(* syntax.rs: the parser.  The Parser's fields are passed along: `chars`   *)
(* is the text, `i` the cursor; a parse_* method returns Ok of the token   *)
(* (or alternatives) with the cursor it leaves, or Err.                    *)

Parsed(token, i) == Ok([token |-> token, i |-> i])

RECURSIVE parse_char_specifiers_from(_, _, _)
parse_char_specifiers_from(s, i, cs) ==
    IF i >= Len(s) THEN cs
    ELSE IF i + 3 <= Len(s) /\ At(s, i + 1) = "-"
         THEN parse_char_specifiers_from(s, i + 3,
                  Append(cs, SpecRange(At(s, i), At(s, i + 2))))
         ELSE parse_char_specifiers_from(s, i + 1, Append(cs, SpecChar(At(s, i))))

parse_char_specifiers(s) == parse_char_specifiers_from(s, 0, <<>>)

\* parse_wildcards that reports a bad left neighbour at the first `*`.
parse_wildcards_at_star(chars, i) ==
    LET start == i
        next == i + 1
    IN  IF next < Len(chars) /\ At(chars, next) = "*"
        THEN IF start > 0 /\ At(chars, start - 1) # "/"
             THEN Err("IllegalRecursion", start)
             ELSE IF next + 1 < Len(chars) /\ At(chars, next + 1) = "*"
             THEN Err("IllegalWildcard", next + 1)
             ELSE IF next + 1 < Len(chars) /\ At(chars, next + 1) # "/"
             THEN Err("IllegalRecursion", next + 1)
             ELSE Parsed(AnyRecursive, next + 1)
        ELSE Parsed(AnySequence, next)

\* parse_wildcards that checks the right neighbour before the left one.
parse_wildcards_right_first(chars, i) ==
    LET start == i
        next == i + 1
    IN  IF next < Len(chars) /\ At(chars, next) = "*"
        THEN IF next + 1 < Len(chars) /\ At(chars, next + 1) = "*"
             THEN Err("IllegalWildcard", next + 1)
             ELSE IF next + 1 < Len(chars) /\ At(chars, next + 1) # "/"
             THEN Err("IllegalRecursion", next + 1)
             ELSE IF start > 0 /\ At(chars, start - 1) # "/"
             THEN Err("IllegalRecursion", start - 1)
             ELSE Parsed(AnyRecursive, next + 1)
        ELSE Parsed(AnySequence, next)

parse_wildcards(chars, i) ==
    LET start == i
        next == i + 1
    IN  IF next < Len(chars) /\ At(chars, next) = "*"
        THEN IF start > 0 /\ At(chars, start - 1) # "/"
             THEN Err("IllegalRecursion", start - 1)
             ELSE IF next + 1 < Len(chars) /\ At(chars, next + 1) = "*"
             THEN Err("IllegalWildcard", next + 1)
             ELSE IF next + 1 < Len(chars) /\ At(chars, next + 1) # "/"
             THEN Err("IllegalRecursion", next + 1)
             ELSE Parsed(AnyRecursive, next + 1)
        ELSE Parsed(AnySequence, next)

parse_escape(chars, i) ==
    IF i + 1 >= Len(chars) THEN Err("IllegalEscape", i)
    ELSE Parsed(Char(At(chars, i + 1)), i + 2)

\* The scan of parse_range over chars[first_char..] from its element k:
\* closed at element v when it meets the closing `]`, Err at an illegal char,
\* not closed when the text ends first.
RECURSIVE scan_range(_, _, _, _)
scan_range(chars, first_char, k, escaped) ==
    IF first_char + k >= Len(chars) THEN [ok |-> TRUE, closed |-> FALSE, v |-> k]
    ELSE LET c == At(chars, first_char + k) IN
         IF escaped THEN scan_range(chars, first_char, k + 1, FALSE)
         ELSE IF c = "\\" THEN scan_range(chars, first_char, k + 1, TRUE)
         ELSE IF c = "]" THEN [ok |-> TRUE, closed |-> TRUE, v |-> k]
         ELSE IF c \in {"[", "(", ")", "|"} THEN Err("IllegalChar", first_char + k)
         ELSE scan_range(chars, first_char, k + 1, FALSE)

parse_range(chars, i) ==
    LET start == i IN
    IF i + 1 >= Len(chars) THEN Err("IllegalRange", start)
    ELSE IF At(chars, i + 1) = "]" THEN Err("EmptyRange", start)
    ELSE LET negated == At(chars, i + 1) = "!"
             first_char == IF negated THEN i + 2 ELSE i + 1
             scan == scan_range(chars, first_char, 0, FALSE)
         IN  IF ~scan.ok THEN scan
             ELSE IF ~scan.closed THEN Err("UnclosedRange", Len(chars) - 1)
             ELSE IF scan.v = 0 THEN Err("EmptyRange", start)
             ELSE LET body == Slice(chars, first_char, first_char + scan.v)
                      after == first_char + Len(body) + 1
                  IN  IF negated
                      THEN Parsed(NotAnyOf(parse_char_specifiers(body)), after)
                      ELSE Parsed(AnyOf(parse_char_specifiers(body)), after)

\* paren_stack.last() / pop(), shared by both scans of parse_patterns: the
\* stack after a closing bracket `c` whose opener is `open`, or Err.
Last(stack) == stack[Len(stack)]
Pop(stack) == SubSeq(stack, 1, Len(stack) - 1)

\* The first scan of parse_patterns, over chars[start..] from element k: the
\* index of the `)` that closes the group.
RECURSIVE scan_patterns(_, _, _, _, _)
scan_patterns(chars, start, k, escaped, paren_stack) ==
    IF start + k >= Len(chars) THEN [ok |-> TRUE, closed |-> FALSE, v |-> k]
    ELSE LET c == At(chars, start + k) IN
         IF escaped THEN scan_patterns(chars, start, k + 1, FALSE, paren_stack)
         ELSE IF c = "\\" THEN scan_patterns(chars, start, k + 1, TRUE, paren_stack)
         ELSE IF c = "]"
         THEN IF paren_stack = <<>> \/ Last(paren_stack) # "["
              THEN Err("IllegalChar", start + k)
              ELSE scan_patterns(chars, start, k + 1, FALSE, Pop(paren_stack))
         ELSE IF c = ")" /\ paren_stack = <<>>
         THEN [ok |-> TRUE, closed |-> TRUE, v |-> k]
         ELSE IF c = ")"
         THEN IF Last(paren_stack) # "("
              THEN Err("IllegalChar", start + k)
              ELSE scan_patterns(chars, start, k + 1, FALSE, Pop(paren_stack))
         ELSE IF c \in {"(", "["}
         THEN scan_patterns(chars, start, k + 1, FALSE, Append(paren_stack, c))
         ELSE scan_patterns(chars, start, k + 1, FALSE, paren_stack)

\* split_patterns that splits at every unescaped `|`, nested or not.
RECURSIVE split_patterns_flat(_, _, _, _, _, _, _, _)
split_patterns_flat(chars, start, n, k, escaped, paren_stack, last_pattern, pattern_parts) ==
    IF k >= n
    THEN LET part == Slice(chars, start + last_pattern, start + n) IN
         IF part = <<>> THEN Err("IllegalOr", start + last_pattern)
         ELSE Ok(Append(pattern_parts, part))
    ELSE LET c == At(chars, start + k) IN
         IF escaped
         THEN split_patterns_flat(chars, start, n, k + 1, FALSE, paren_stack,
                             last_pattern, pattern_parts)
         ELSE IF c = "\\"
         THEN split_patterns_flat(chars, start, n, k + 1, TRUE, paren_stack,
                             last_pattern, pattern_parts)
         ELSE IF c = "]"
         THEN IF paren_stack = <<>> \/ Last(paren_stack) # "["
              THEN Err("IllegalChar", start + k)
              ELSE split_patterns_flat(chars, start, n, k + 1, FALSE, Pop(paren_stack),
                                  last_pattern, pattern_parts)
         ELSE IF c = ")"
         THEN IF paren_stack = <<>> \/ Last(paren_stack) # "("
              THEN Err("IllegalChar", start + k)
              ELSE split_patterns_flat(chars, start, n, k + 1, FALSE, Pop(paren_stack),
                                  last_pattern, pattern_parts)
         ELSE IF c \in {"(", "["}
         THEN split_patterns_flat(chars, start, n, k + 1, FALSE, Append(paren_stack, c),
                             last_pattern, pattern_parts)
         ELSE IF c = "|"
         THEN LET part == Slice(chars, start + last_pattern, start + k) IN
              IF part = <<>> THEN Err("IllegalOr", start + last_pattern)
              ELSE split_patterns_flat(chars, start, n, k + 1, FALSE, paren_stack,
                                  k + 1, Append(pattern_parts, part))
         ELSE split_patterns_flat(chars, start, n, k + 1, FALSE, paren_stack,
                             last_pattern, pattern_parts)

\* The second scan of parse_patterns, over the group body chars[start..start+n]
\* from element k: Ok of the alternatives' texts.  It goes on with the
\* `escaped` flag and the paren_stack the first scan left (FALSE and empty:
\* the first scan stops at an unescaped `)` with the stack empty).
RECURSIVE split_patterns(_, _, _, _, _, _, _, _)
split_patterns(chars, start, n, k, escaped, paren_stack, last_pattern, pattern_parts) ==
    IF k >= n
    THEN LET part == Slice(chars, start + last_pattern, start + n) IN
         IF part = <<>> THEN Err("IllegalOr", start + last_pattern)
         ELSE Ok(Append(pattern_parts, part))
    ELSE LET c == At(chars, start + k) IN
         IF escaped
         THEN split_patterns(chars, start, n, k + 1, FALSE, paren_stack,
                             last_pattern, pattern_parts)
         ELSE IF c = "\\"
         THEN split_patterns(chars, start, n, k + 1, TRUE, paren_stack,
                             last_pattern, pattern_parts)
         ELSE IF c = "]"
         THEN IF paren_stack = <<>> \/ Last(paren_stack) # "["
              THEN Err("IllegalChar", start + k)
              ELSE split_patterns(chars, start, n, k + 1, FALSE, Pop(paren_stack),
                                  last_pattern, pattern_parts)
         ELSE IF c = ")"
         THEN IF paren_stack = <<>> \/ Last(paren_stack) # "("
              THEN Err("IllegalChar", start + k)
              ELSE split_patterns(chars, start, n, k + 1, FALSE, Pop(paren_stack),
                                  last_pattern, pattern_parts)
         ELSE IF c \in {"(", "["}
         THEN split_patterns(chars, start, n, k + 1, FALSE, Append(paren_stack, c),
                             last_pattern, pattern_parts)
         ELSE IF c = "|" /\ Len(paren_stack) = 0
         THEN LET part == Slice(chars, start + last_pattern, start + k) IN
              IF part = <<>> THEN Err("IllegalOr", start + last_pattern)
              ELSE split_patterns(chars, start, n, k + 1, FALSE, paren_stack,
                                  k + 1, Append(pattern_parts, part))
         ELSE split_patterns(chars, start, n, k + 1, FALSE, paren_stack,
                             last_pattern, pattern_parts)

RECURSIVE parse_from(_, _, _)
RECURSIVE parse_parts(_, _, _)
RECURSIVE parse_patterns(_, _)

\* pub(crate) fn parse: a fresh Parser on the text, run from offset 0.
parse(chars) == parse_from(chars, 0, <<>>)

\* The last loop of parse_patterns: each alternative's text is parsed by a
\* parser of its own, and the first error is returned as it is.
parse_parts(pattern_parts, k, tokens) ==
    IF k > Len(pattern_parts) THEN Ok(tokens)
    ELSE LET sub == parse(pattern_parts[k]) IN
         IF ~sub.ok THEN sub
         ELSE parse_parts(pattern_parts, k + 1, Append(tokens, sub.v))

parse_patterns(chars, i) ==
    LET start == i + 2
        scan == scan_patterns(chars, start, 0, FALSE, <<>>)
    IN  IF ~scan.ok THEN scan
        ELSE IF ~scan.closed THEN Err("UnclosedPattern", Len(chars) - 1)
        ELSE IF scan.v = 0 THEN Err("EmptyPattern", start)
        ELSE LET split == split_patterns(chars, start, scan.v, 0, FALSE, <<>>,
                                         0, <<>>)
             IN  IF ~split.ok THEN split
                 ELSE LET alts == parse_parts(split.v, 1, <<>>) IN
                      IF ~alts.ok THEN alts
                      ELSE Parsed(alts.v, start + scan.v + 1)

\* The quantifier a two-char lookahead opens, "" when it opens none.
QuantifierKind(c0, c1) ==
    IF c1 # "(" THEN ""
    ELSE CASE c0 = "?" -> "ZeroOrOne"
           [] c0 = "*" -> "ZeroOrMore"
           [] c0 = "+" -> "OneOrMore"
           [] c0 = "@" -> "ExactlyOne"
           [] c0 = "!" -> "NoneOf"
           [] OTHER -> ""

\* One token of Parser::parse at cursor i that is not a quantifier group.
parse_token(chars, i) ==
    LET c == At(chars, i) IN
    CASE c = "?" -> Parsed(AnyChar, i + 1)
      [] c = "*" -> parse_wildcards(chars, i)
      [] c = "\\" -> parse_escape(chars, i)
      [] c = "[" -> parse_range(chars, i)
      [] c \in {"]", "(", ")", "|"} -> Err("IllegalChar", i)
      [] OTHER -> Parsed(Char(c), i + 1)

\* Parser::parse: the while loop from cursor i with `tokens` pushed so far.
parse_from(chars, i, tokens) ==
    IF i >= Len(chars) THEN Ok(tokens)
    ELSE LET quantifier == IF i + 1 < Len(chars)
                           THEN QuantifierKind(At(chars, i), At(chars, i + 1))
                           ELSE ""
             got == IF quantifier # ""
                    THEN LET alts == parse_patterns(chars, i) IN
                         IF ~alts.ok THEN alts
                         ELSE Parsed([kind |-> quantifier, patterns |-> alts.v.token],
                                     alts.v.i)
                    ELSE parse_token(chars, i)
         IN  IF ~got.ok THEN got
             ELSE parse_from(chars, got.v.i, Append(tokens, got.v.token))

\* Pattern::new / FromStr::from_str: Ok of the Matcher's tokens, or the
\* syntax error.
Pattern_new(chars) == parse(chars)

\* Pattern::matches
Pattern_matches(tokens, s) == Matcher_matches(tokens, s)

----------------------------------------------------------------------------
(* The caller.  It builds a pattern text from pieces L, a construct and R, *)
(* compiles it once with Pattern::new and matches the compiled pattern     *)
(* against any number of inputs.  `parts` keeps the pieces the text was    *)
(* built from; the program sees `text` only.                               *)

MaxInput == 3
MaxLit == 1
MaxItems == 2
MaxClass == 3
MaxAlts == 2

RECURSIVE SeqsUpTo(_, _)
SeqsUpTo(S, n) ==
    IF n = 0 THEN {<<>>}
    ELSE LET shorter == SeqsUpTo(S, n - 1) IN
         shorter \cup {Append(s, c) : s \in {t \in shorter : Len(t) = n - 1}, c \in S}

RECURSIVE Join(_, _)
Join(texts, sep) ==
    IF texts = <<>> THEN <<>>
    ELSE IF Len(texts) = 1 THEN texts[1]
    ELSE texts[1] \o sep \o Join(Tail(texts), sep)

InputChars == {"a", "/", "-", "*"}

Inputs == SeqsUpTo(InputChars, MaxInput)

Quantifiers == {"ZeroOrOne", "ZeroOrMore", "OneOrMore", "ExactlyOne", "NoneOf"}

\* The char that opens a quantifier group of the kind.
Lead(kind) ==
    CASE kind = "ZeroOrOne" -> "?"
      [] kind = "ZeroOrMore" -> "*"
      [] kind = "OneOrMore" -> "+"
      [] kind = "ExactlyOne" -> "@"
      [] kind = "NoneOf" -> "!"

\* A pattern text in pieces: L, then the construct `op` (over the texts
\* `alts` when it has a body), then R.
Part(L, op, alts, R) == [L |-> L, op |-> op, alts |-> alts, R |-> R]

\* The text of the construct between L and R.
Construct(p) ==
    CASE p.op = "Literal" -> <<>>
      [] p.op = "AnyChar" -> <<"?">>
      [] p.op = "AnySequence" -> <<"*">>
      [] p.op = "AnyRecursive" -> <<"*", "*">>
      [] p.op = "AnyRecursiveSep" -> <<"*", "*", "/">>
      [] p.op = "OpenClass" -> <<"[">>
      [] p.op = "AnyOf" -> <<"[">> \o p.alts[1] \o <<"]">>
      [] p.op = "NotAnyOf" -> <<"[", "!">> \o p.alts[1] \o <<"]">>
      [] p.op \in Quantifiers ->
            <<Lead(p.op), "(">> \o Join(p.alts, <<"|">>) \o <<")">>

Text(p) == p.L \o Construct(p) \o p.R

\* Literal strings.
Lits == SeqsUpTo({"a", "-"}, MaxLit)

\* L?R
AnyCharShapes == {Part(L, "AnyChar", <<>>, R) : L, R \in Lits}

\* Texts of literal chars and \c escapes only.
LiteralItems == {<<"a">>, <<"/">>, <<"-">>, <<"\\", "a">>, <<"\\", "*">>}

LiteralShapes ==
    {Part(Join(items, <<>>), "Literal", <<>>, <<>>) :
        items \in SeqsUpTo(LiteralItems, MaxItems)}

\* A lone * and a lone **
WildcardShapes ==
    {Part(<<>>, "AnySequence", <<>>, <<>>), Part(<<>>, "AnyRecursive", <<>>, <<>>)}

\* P**/R
RecursivePrefixes == {<<>>, <<"a", "/">>, <<"*", "/">>}

RecursiveRests ==
    {<<"a">>, <<"*">>, <<"/">>, <<"a", "/", "-">>, <<"*", "a">>,
     <<"[", "a", "-", "]">>, <<"*", "*">>}

RecursiveShapes ==
    {Part(P, "AnyRecursiveSep", <<>>, R) : P \in RecursivePrefixes, R \in RecursiveRests}

\* [S] and [!S]
ClassChars == {"a", "-", "/"}

ClassShapes ==
    {Part(<<>>, op, <<S>>, <<>>) :
        op \in {"AnyOf", "NotAnyOf"},
        S \in SeqsUpTo(ClassChars, MaxClass) \ {<<>>}}

\* L q(a1|...|an) R
AltTexts == {<<"a">>, <<"[", "a", "-", "]">>, <<"a", "*">>}

GroupLits == {<<>>, <<"a">>}

GroupRests == {<<>>, <<"/">>, <<"*">>}

GroupShapes ==
    {Part(L, q, alts, R) :
        L \in GroupLits, q \in Quantifiers,
        alts \in SeqsUpTo(AltTexts, MaxAlts) \ {<<>>}, R \in GroupRests}

\* !(a) with nested alternatives
NestedAlts ==
    {<<"+", "(", "a", "|", "-", ")", "*">>, <<"!", "(", "a", ")">>,
     <<"a", "?", "(", "/", ")">>}

NestedShapes == {Part(<<>>, "NoneOf", <<alt>>, <<>>) : alt \in NestedAlts}

\* L**R: a `**` between any neighbours
FlankLefts == {<<>>, <<"a">>, <<"/">>, <<"a", "/">>, <<"\\", "*">>, <<"/", "\\", "/">>}

FlankRights == {<<>>, <<"b">>, <<"/">>, <<"*">>, <<"/", "a">>, <<"*", "/">>, <<"\\", "/">>}

FlankShapes ==
    {Part(L, "AnyRecursive", <<>>, R) : L \in FlankLefts, R \in FlankRights}

\* L[ : a class opened by the last char of the text
OpenClassLefts == {<<>>, <<"a">>, <<"a", "/">>, <<"a", "b", "c">>}

OpenClassShapes == {Part(L, "OpenClass", <<>>, <<>>) : L \in OpenClassLefts}

\* L q(a1|...|an) with a fault in the last alternative: a text that does not
\* compile, alone or inside a group of its own.
FlatFaults == {<<"a", "*", "*">>, <<"[", "]">>, <<"a", "[", "]">>}

FaultAlts == FlatFaults \cup {<<"!", "(">> \o f \o <<")">> : f \in FlatFaults}

FaultShapes ==
    {Part(L, q, alts, <<>>) :
        L \in GroupLits, q \in {"ExactlyOne", "NoneOf"},
        alts \in {<<f>> : f \in FaultAlts} \cup {<<<<"a">>, f>> : f \in FaultAlts}}

\* q(b1|...|bn): pieces joined by `|`, some of them empty, some with a `|`
\* of their own, escaped or inside a nested group.
MaxPieces == 3

SplitPieces ==
    {<<>>, <<"a", "\\", "|">>, <<"@", "(", "a", "|", "-", ")">>}

SplitShapes ==
    {Part(<<>>, q, alts, <<>>) :
        q \in {"ZeroOrMore", "ExactlyOne"},
        alts \in SeqsUpTo(SplitPieces, MaxPieces) \ {<<>>}}

\* L!(a1|...|an)R with a remainder R of one or two tokens
NoneOfAlts ==
    {<<<<"a">>>>, <<<<"-">>, <<"a", "*">>>>,
     <<<<"!", "(", "!", "(", "a", "|", "-", ")", ")">>>>}

NoneOfRests == {<<"a">>, <<"-", "a">>, <<"/", "*">>, <<"\\", "*">>}

NoneOfShapes ==
    {Part(L, "NoneOf", alts, R) :
        L \in GroupLits, alts \in NoneOfAlts, R \in NoneOfRests}

Shapes ==
    AnyCharShapes \cup LiteralShapes \cup WildcardShapes \cup RecursiveShapes
        \cup ClassShapes \cup GroupShapes \cup NestedShapes
        \cup FlankShapes \cup OpenClassShapes \cup FaultShapes
        \cup NoneOfShapes \cup SplitShapes

Init ==
    /\ pc = "start"
    /\ text = <<>>
    /\ parts = Part(<<>>, "Literal", <<>>, <<>>)
    /\ compiled = Err("", 0)
    /\ subject = <<>>
    /\ verdict = FALSE

\* Pattern::new(text)
New(p) ==
    /\ pc = "start"
    /\ parts' = p
    /\ text' = Text(p)
    /\ compiled' = Pattern_new(Text(p))
    /\ pc' = IF Pattern_new(Text(p)).ok THEN "pattern" ELSE "error"
    /\ UNCHANGED <<subject, verdict>>

\* pattern.matches(s).  The call reads the tokens and leaves them as they
\* are, so one call per compiled pattern shows what any later call does.
Matches(s) ==
    /\ pc = "pattern"
    /\ subject' = s
    /\ verdict' = Pattern_matches(compiled.v, s)
    /\ pc' = "matched"
    /\ UNCHANGED <<text, parts, compiled>>

\* The guards of New and Matches are stated here as well, ahead of the
\* choice of the text and of the input.
Next ==
    \/ pc = "start" /\ \E p \in Shapes : New(p)
    \/ pc = "pattern" /\ \E s \in Inputs : Matches(s)

Spec == Init /\ [][Next]_vars

----------------------------------------------------------------------------
(* Properties.                                                             *)

Matched == pc = "matched"

HasPrefix(L, s) == Len(s) >= Len(L) /\ SubSeq(s, 1, Len(L)) = L

\* s without its first Len(L) chars.
After(L, s) == SubSeq(s, Len(L) + 1, Len(s))

\* Whether token sequence of text A followed by that of text R matches t.
FollowedByMatches(A, R, t) ==
    /\ parse(A).ok
    /\ parse(R).ok
    /\ Matcher_matches(parse(A).v \o parse(R).v, t)

\* The alternatives of the group in p that, followed by p.R, match t.
AltsMatching(p, t) == {k \in 1..Len(p.alts) : FollowedByMatches(p.alts[k], p.R, t)}

\* C1: L?R matches s iff s = L c R for one char c; `?` alone matches exactly
\* the strings of length 1.
C1_AnyCharConsumesOne ==
    (Matched /\ parts.op = "AnyChar") =>
        (verdict <=> /\ Len(subject) = Len(parts.L) + 1 + Len(parts.R)
                     /\ HasPrefix(parts.L, subject)
                     /\ After(parts.L \o <<subject[Len(parts.L) + 1]>>, subject) = parts.R)

\* The chars a text of literal chars and \c escapes stands for.
RECURSIVE Unescape(_)
Unescape(t) ==
    IF t = <<>> THEN <<>>
    ELSE IF t[1] = "\\" THEN <<t[2]>> \o Unescape(SubSeq(t, 3, Len(t)))
    ELSE <<t[1]>> \o Unescape(Tail(t))

\* C2: a pattern of literal chars and \c escapes compiles and matches s iff s
\* is exactly the chars it stands for: no proper prefix, no extension, no
\* other string.
C2_LiteralAnchored ==
    (parts.op = "Literal" /\ pc # "start") =>
        /\ compiled.ok
        /\ Matched => (verdict <=> subject = Unescape(text))

\* C2 case: a pattern with an escaped `*` matched by the chars it stands for.
C2_Witness ==
    /\ Matched
    /\ parts.op = "Literal"
    /\ text = <<"a", "\\", "*">>
    /\ subject = <<"a", "*">>
    /\ verdict

\* C3: the patterns `*` and `**` compile and match every input, the empty
\* string and strings with path separators included.
C3_LoneWildcardMatchesAll ==
    (parts \in WildcardShapes /\ pc # "start") =>
        /\ compiled.ok
        /\ Matched => verdict

\* C3 case: `**` matched against an input of several chars with separators.
C3_Witness ==
    /\ Matched
    /\ parts.op = "AnyRecursive"
    /\ subject = <<"/", "a", "/">>
    /\ verdict

\* C4: when P**/R compiles and the pattern P R (the `**` and the separator
\* after it deleted) matches s, then P**/R matches s.
C4_ZeroSegmentAbsorption ==
    (/\ Matched
     /\ parts.op = "AnyRecursiveSep"
     /\ parse(parts.L \o parts.R).ok
     /\ Matcher_matches(parse(parts.L \o parts.R).v, subject)) => verdict

\* The class body S read left to right from its 1-based element k: a char
\* followed by `-` and one more char is a range, any other char is listed.
\* Whether c is listed or lies in a range.
RECURSIVE ClassCovers(_, _, _)
ClassCovers(S, k, c) ==
    IF k > Len(S) THEN FALSE
    ELSE IF k + 2 <= Len(S) /\ S[k + 1] = "-"
         THEN \/ (CodePoint(S[k]) <= CodePoint(c) /\ CodePoint(c) <= CodePoint(S[k + 2]))
              \/ ClassCovers(S, k + 3, c)
         ELSE S[k] = c \/ ClassCovers(S, k + 1, c)

\* A `-` that is the first or the last char of S.
DashAtEdge(S) == S[1] = "-" \/ S[Len(S)] = "-"

IsClass == parts.op \in {"AnyOf", "NotAnyOf"}

C6_ExactlyOne ==
    (Matched /\ parts \in GroupShapes /\ parts.op = "ExactlyOne") =>
        (verdict <=> /\ HasPrefix(parts.L, subject)
                     /\ Cardinality(AltsMatching(parts, After(parts.L, subject))) = 1)

\* C6 case: two alternatives that both match the input, so no match.
C6_Witness ==
    /\ Matched
    /\ parts = Part(<<"a">>, "ExactlyOne", <<<<"[", "a", "-", "]">>, <<"a">>>>, <<"/">>)
    /\ subject = <<"a", "a", "/">>
    /\ ~verdict

\* C7: L?(a1|...|an)R matches s iff s = L t and either exactly one
\* alternative followed by R matches t, or none does and R alone matches t;
\* with two or more it does not match, even when R alone matches t.
C7_ZeroOrOne ==
    (Matched /\ parts \in GroupShapes /\ parts.op = "ZeroOrOne") =>
        LET t == After(parts.L, subject)
            n == Cardinality(AltsMatching(parts, t))
        IN  verdict <=> /\ HasPrefix(parts.L, subject)
                        /\ \/ n = 1
                           \/ n = 0 /\ FollowedByMatches(<<>>, parts.R, t)

\* C7 case: two alternatives match and R alone matches too, so no match.
C7_Witness ==
    /\ Matched
    /\ parts = Part(<<>>, "ZeroOrOne", <<<<"a">>, <<"a", "*">>>>, <<"*">>)
    /\ subject = <<"a">>
    /\ ~verdict

\* C8: L*(a1|...|an)R matches s iff s = L t and some alternative followed by
\* R matches t or R alone matches t: one occurrence at most is tried.
C8_ZeroOrMore ==
    (Matched /\ parts \in GroupShapes /\ parts.op = "ZeroOrMore") =>
        LET t == After(parts.L, subject) IN
        verdict <=> /\ HasPrefix(parts.L, subject)
                    /\ \/ AltsMatching(parts, t) # {}
                       \/ FollowedByMatches(<<>>, parts.R, t)

\* C8 case: two occurrences in a row of an alternative are not matched.
C8_Witness ==
    /\ Matched
    /\ parts = Part(<<"a">>, "ZeroOrMore", <<<<"[", "a", "-", "]">>, <<"a">>>>, <<>>)
    /\ subject = <<"a", "-", "a">>
    /\ ~verdict

\* C9: L+(a1|...|an)R matches s iff s = L t and some alternative followed by
\* R matches t: no match with the group absent, none with two occurrences.
C9_OneOrMore ==
    (Matched /\ parts \in GroupShapes /\ parts.op = "OneOrMore") =>
        LET t == After(parts.L, subject) IN
        verdict <=> /\ HasPrefix(parts.L, subject)
                    /\ AltsMatching(parts, t) # {}

\* C9 case: the group absent, R alone matching the input, so no match.
C9_Witness ==
    /\ Matched
    /\ parts = Part(<<"a">>, "OneOrMore", <<<<"a">>, <<"[", "a", "-", "]">>>>, <<"/">>)
    /\ subject = <<"a", "/">>
    /\ ~verdict

\* C10: a pattern that is one group !(a1|...|an) matches s iff no
\* alternative, taken as a whole pattern, matches s; the empty s included.
C10_LoneNoneOf ==
    (Matched /\ parts.op = "NoneOf" /\ parts.L = <<>> /\ parts.R = <<>>) =>
        (verdict <=> \A k \in 1..Len(parts.alts) :
                        ~FollowedByMatches(parts.alts[k], <<>>, subject))

\* C10 case: the empty input, which no alternative matches.
C10_Witness ==
    /\ Matched
    /\ parts = Part(<<>>, "NoneOf", <<<<"a">>, <<"[", "a", "-", "]">>>>, <<>>)
    /\ subject = <<>>
    /\ verdict

Failed == pc = "error"

\* C11 as stated: compiling `a**b` fails with IllegalRecursion at offset 1,
\* the offset of the first `*`.
C11_RecursionAtFirstStar ==
    (pc # "start" /\ text = <<"a", "*", "*", "b">>) =>
        compiled = Err("IllegalRecursion", 1)

\* C11 amended: compiling `a**b` fails with IllegalRecursion at offset 0, the
\* offset of the char before the `**`.
C11_RecursionAtLeftNeighbour ==
    (pc # "start" /\ text = <<"a", "*", "*", "b">>) =>
        compiled = Err("IllegalRecursion", 0)

\* C11 case: `a**b` has been compiled and refused.
C11_Witness ==
    /\ Failed
    /\ text = <<"a", "*", "*", "b">>
    /\ compiled.err = "IllegalRecursion"

\* C12: L**R, L not ending in an unescaped `*`, is refused at the offending
\* neighbour of the `**`, the left one first: IllegalRecursion at the last
\* char of L when it is not `/`; else IllegalWildcard at the first char of R
\* when it is `*`; else IllegalRecursion at the first char of R when it is
\* not `/`.  With `/` or the end of the text on both sides it compiles.
C12_FlankedRecursion ==
    (parts \in FlankShapes /\ pc # "start") =>
        LET L == parts.L
            R == parts.R
        IN  IF L # <<>> /\ L[Len(L)] # "/"
            THEN compiled = Err("IllegalRecursion", Len(L) - 1)
            ELSE IF R # <<>> /\ R[1] = "*"
            THEN compiled = Err("IllegalWildcard", Len(L) + 2)
            ELSE IF R # <<>> /\ R[1] # "/"
            THEN compiled = Err("IllegalRecursion", Len(L) + 2)
            ELSE compiled.ok

\* C12 case: a `**` with a good left neighbour and a third `*` on its right.
C12_Witness ==
    /\ Failed
    /\ parts = Part(<<"a", "/">>, "AnyRecursive", <<>>, <<"*", "/">>)
    /\ compiled = Err("IllegalWildcard", 4)

\* C13: a text whose last char is an unescaped `[` that opens a class is
\* refused with EmptyRange at the offset of that `[`.
C13_OpenClassAtEnd ==
    (parts.op = "OpenClass" /\ pc # "start") =>
        compiled = Err("EmptyRange", Len(parts.L))

\* The offset of the fault within the text f of FaultAlts: the left neighbour
\* of the `**`, the `[` of the empty class; behind the two chars that open a
\* group when f is a group.
RECURSIVE FaultIn(_)
FaultIn(f) ==
    CASE f = <<"a", "*", "*">> -> 0
      [] f = <<"[", "]">> -> 0
      [] f = <<"a", "[", "]">> -> 1
      [] OTHER -> 2 + FaultIn(SubSeq(f, 3, Len(f) - 1))

\* The offset in Text(p) of the fault of p's last alternative.
FaultPosition(p) ==
    LET n == Len(p.alts)
        before == Join(SubSeq(p.alts, 1, n - 1) \o <<<<>>>>, <<"|">>)
    IN  Len(p.L) + 2 + Len(before) + FaultIn(p.alts[n])

\* C14: the offset of a compile error is the position of the fault in the
\* whole text, also for a fault inside an alternative of a group, at any
\* depth.
C14_OffsetsInWholeText ==
    (parts \in FaultShapes /\ pc # "start") =>
        /\ ~compiled.ok
        /\ compiled.offset = FaultPosition(parts)

\* L!(A)R with L a literal and R a remainder after which `*` stays a lone
\* AnySequence: the text L*R compiles to the tokens of L, AnySequence and the
\* tokens of R.
NoneOfFamily == {p \in GroupShapes : p.op = "NoneOf"} \cup NoneOfShapes

IsNoneOf ==
    /\ parts.op = "NoneOf"
    /\ parts \in NoneOfFamily

StarTwin(p) == p.L \o <<"*">> \o p.R

HasStarTwin(p) ==
    /\ parse(StarTwin(p)).ok
    /\ parse(StarTwin(p)).v = parse(p.L).v \o <<AnySequence>> \o parse(p.R).v

\* The case of C15: the input is L t and no alternative followed by R
\* matches t.
NoAlternativeMatches ==
    /\ Matched
    /\ IsNoneOf
    /\ HasStarTwin(parts)
    /\ HasPrefix(parts.L, subject)
    /\ AltsMatching(parts, After(parts.L, subject)) = {}

\* C15 as stated: when no alternative followed by R matches t, L!(A)R matches
\* s = L t iff L*R matches s.
C15_NoneOfLikeAnySequence ==
    NoAlternativeMatches =>
        (verdict <=> Matcher_matches(parse(StarTwin(parts)).v, subject))

\* C15 amended: when no alternative followed by R matches t, L!(A)R matches
\* s = L t iff L*R matches s with the first char of t taken away (s itself
\* when t is empty): the group stands for one char at least when input is
\* left.
C15_NoneOfTakesOneChar ==
    NoAlternativeMatches =>
        LET t == After(parts.L, subject)
            shorter == IF t = <<>> THEN subject ELSE parts.L \o Tail(t)
        IN  verdict <=> Matcher_matches(parse(StarTwin(parts)).v, shorter)

\* C15 case: the group stands for two chars before R matches.
C15_Witness ==
    /\ NoAlternativeMatches
    /\ parts = Part(<<>>, "NoneOf", <<<<"a">>>>, <<"a">>)
    /\ subject = <<"-", "-", "a">>
    /\ verdict

\* A text that compiles to Char tokens only.
IsLiteralText(t) ==
    /\ parse(t).ok
    /\ \A k \in 1..Len(parse(t).v) : parse(t).v[k].kind = "Char"

\* C16: for a literal L and a non-empty literal R, L!(A)R does not match the
\* input L R: the group does not stand for the empty string while input is
\* left.
C16_NoneOfNeverEmpty ==
    (/\ Matched
     /\ IsNoneOf
     /\ parts.R # <<>>
     /\ IsLiteralText(parts.R)
     /\ subject = Unescape(parts.L) \o Unescape(parts.R)) => ~verdict

\* C16 case: no alternative followed by R matches the input R, and the group
\* finds no char to stand for.
C16_Witness ==
    /\ NoAlternativeMatches
    /\ parts = Part(<<"a">>, "NoneOf", <<<<"a">>>>, <<"\\", "*">>)
    /\ subject = <<"a", "*">>
    /\ ~verdict

\* The tokens a text of one group of kind q compiles to when its
\* alternatives are the compilations of the texts in `pieces`, in order.
GroupOf(q, pieces) ==
    <<[kind |-> q, patterns |-> [k \in 1..Len(pieces) |-> parse(pieces[k]).v]]>>

HasEmptyPiece(p) == \E k \in 1..Len(p.alts) : p.alts[k] = <<>>

\* C17 as stated: a group whose body is pieces joined by `|`, the pieces
\* having no `|` of their own but escaped ones and ones inside a nested
\* group, compiles to one alternative per piece, in order, each the
\* compilation of its piece; with an empty piece it fails with IllegalOr.
C17_SplitAtTopLevelBars ==
    (parts \in SplitShapes /\ pc # "start") =>
        IF HasEmptyPiece(parts)
        THEN ~compiled.ok /\ compiled.err = "IllegalOr"
        ELSE compiled = Ok(GroupOf(parts.op, parts.alts))

\* C17 amended: as stated, but a body that is empty as a whole fails with
\* EmptyPattern; an empty piece beside a `|` fails with IllegalOr.
C17_SplitOrEmptyPattern ==
    (parts \in SplitShapes /\ pc # "start") =>
        IF parts.alts = <<<<>>>>
        THEN ~compiled.ok /\ compiled.err = "EmptyPattern"
        ELSE IF HasEmptyPiece(parts)
        THEN ~compiled.ok /\ compiled.err = "IllegalOr"
        ELSE compiled = Ok(GroupOf(parts.op, parts.alts))

\* C17 case: three pieces, one with an escaped `|` and one with a `|` inside
\* a nested group, compiled to three alternatives.
C17_Witness ==
    /\ pc = "pattern"
    /\ parts = Part(<<>>, "ExactlyOne",
                    <<<<"a", "\\", "|">>, <<"@", "(", "a", "|", "-", ")">>,
                      <<"a", "\\", "|">>>>, <<>>)
    /\ Len(compiled.v[1].patterns) = 3

\* The matcher of matcher.rs with one change: a wildcard that gets the hard
\* failure NoMatch from an attempt goes on as it does after Retryable, to
\* the separator skip and to the next char.  All else is match_index.
RECURSIVE patient_index(_, _, _)
RECURSIVE patient_search(_, _, _, _)

\* The consuming loop; `pruning` tells whether NoMatch ends it (NoneOf) or
\* not (the wildcards).
patient_search(tokens, next, input, pruning) ==
    IF input = <<>> THEN patient_index(tokens, next, input)
    ELSE LET m == patient_index(tokens, next, Tail(input)) IN
         IF m = "Match" \/ (pruning /\ m = "NoMatch") THEN m
         ELSE patient_search(tokens, next, Tail(input), pruning)

patient_index(tokens, i, input) ==
    IF i >= Len(tokens) THEN match_end(input)
    ELSE LET token == At(tokens, i)
             kind == token.kind
             rest == SliceFrom(tokens, i + 1)
             matches == Cardinality({k \in 1..Len(token.patterns) :
                            patient_index(token.patterns[k] \o rest, 0, input) = "Match"})
             skip == /\ kind = "AnyRecursive"
                     /\ i + 1 < Len(tokens)
                     /\ At(tokens, i + 1).kind = "Char"
                     /\ is_separator(At(tokens, i + 1).c)
         IN
         CASE kind \in {"AnyRecursive", "AnySequence"} ->
                IF patient_index(tokens, i + 1, input) = "Match" THEN "Match"
                ELSE IF skip /\ patient_index(tokens, i + 2, input) = "Match"
                THEN "Match"
                ELSE patient_search(tokens, i + 1, input, FALSE)
           [] kind = "Char" ->
                IF input = <<>> THEN "NoMatch"
                ELSE IF token.c # Head(input) THEN "Retryable"
                ELSE patient_index(tokens, i + 1, Tail(input))
           [] kind = "AnyChar" -> "Match"
           [] kind = "AnyOf" ->
                IF input = <<>> THEN "NoMatch"
                ELSE IF match_specifiers(token.specifiers, Head(input)) = "Match"
                THEN patient_index(tokens, i + 1, Tail(input))
                ELSE "Retryable"
           [] kind = "NotAnyOf" ->
                IF input = <<>> THEN "NoMatch"
                ELSE IF match_specifiers(token.specifiers, Head(input)) = "Retryable"
                THEN patient_index(tokens, i + 1, Tail(input))
                ELSE "Retryable"
           [] kind = "ZeroOrOne" ->
                IF matches > 1 THEN "Retryable"
                ELSE IF matches = 1 THEN "Match"
                ELSE patient_index(tokens, i + 1, input)
           [] kind = "ZeroOrMore" ->
                IF matches > 0 THEN "Match" ELSE patient_index(tokens, i + 1, input)
           [] kind = "OneOrMore" ->
                IF matches > 0 THEN "Match" ELSE "Retryable"
           [] kind = "ExactlyOne" ->
                IF matches = 1 THEN "Match" ELSE "Retryable"
           [] kind = "NoneOf" ->
                IF matches > 0 THEN "Retryable"
                ELSE patient_search(tokens, i + 1, input, TRUE)

\* C18: pruning at the hard failure loses no match: every compiled pattern
\* matches an input iff it does under the matcher whose wildcards go on
\* searching after NoMatch.
C18_PruningIsSound ==
    Matched => (verdict <=> patient_index(compiled.v, 0, subject) = "Match")

=============================================================================
